---- MODULE Spec2Model ----
(***************************************************************************)
(* A model of simple_logger (src/src/lib.rs): one Logger that buffers      *)
(* leveled entries in memory and writes them to a file when flush is       *)
(* called.  The process environment (LOG_LEVEL), the wall clock and the    *)
(* file system at the target path are part of the state, because flush     *)
(* reads all three.                                                        *)
(***************************************************************************)
EXTENDS Naturals, Sequences, FiniteSets

(* ------------------------------- bounds -------------------------------- *)
\* Record calls made on the buffer before it is flushed.
MaxEntries == 2
\* Last value of the wall clock, in ticks; the clock starts at 0.
MaxClock == 2

\* Clock ticks per second: "%Y-%m-%d %H-%M-%S" prints whole seconds only,
\* DateTime<Local> is finer (lib.rs:108).
TicksPerSecond == 2

\* Message texts: empty, one character, and a text with a newline in it.
Messages == {"", "a", "a\nb"}

(* ------------------------------ data model ------------------------------ *)
\* enum LogLevel (lib.rs:10-15).
LogLevel == {"Default", "Error", "Debug", "Info"}

\* LOG_LEVEL in the process environment: absent, present but not valid
\* Unicode, or present with a text value.
Unset == "<unset>"
NotUnicode == "<not-unicode>"
EnvTexts == {"debug", "info", "error", "DEBUG", ""}
EnvValues == {Unset, NotUnicode} \cup EnvTexts

\* Option<PathBuf> of Logger.file_path (lib.rs:26).
None == "<none>"
TargetPath == "logs/app.log"

\* default_log_path() for the build's target_os (lib.rs:30-38): a directory.
default_log_path == "/var/log"

Paths == {TargetPath, default_log_path}

\* What the file system holds at a path: nothing ("absent"), a regular file
\* with its content ("file"), or a directory ("dir"); parent tells whether
\* the path's parent directory exists.
Absent(parentExists) == [kind |-> "absent", parent |-> parentExists, data |-> <<>>]
RegularFile(content) == [kind |-> "file", parent |-> TRUE, data |-> content]
Directory == [kind |-> "dir", parent |-> TRUE, data |-> <<>>]

VARIABLES
    self,       \* "none": not constructed; "live": owned by the caller;
                \* "moved": consumed by flush(self)
    entries,    \* Logger.entries
    file_path,  \* Logger.file_path
    flushed,    \* the value held by Logger.flushed
    LOG_LEVEL,  \* the environment variable
    clock,      \* Local::now(), in ticks
    fs,         \* the file system, per path
    last        \* what the flush call did: its inputs as it read them and
                \* its result

vars == <<self, entries, file_path, flushed, LOG_LEVEL, clock, fs, last>>

\* Before any flush call.
NoFlush == [result |-> "none", reads |-> 0, env |-> Unset, log_level |-> "none",
            path |-> None, entries |-> <<>>, before |-> Absent(FALSE),
            opened |-> FALSE, fault |-> "none"]

(* --------------------------- pure functions ---------------------------- *)
\* get_log_level with an arm for "error".
get_log_level_with_error(value) ==
    IF value \in {Unset, NotUnicode} THEN "panic"
    ELSE CASE value = "debug" -> "Debug"
           [] value = "info" -> "Info"
           [] value = "error" -> "Error"
           [] OTHER -> "Default"

\* get_log_level matching the value without regard to case.
get_log_level_nocase(value) ==
    IF value \in {Unset, NotUnicode} THEN "panic"
    ELSE CASE value \in {"debug", "DEBUG"} -> "Debug"
           [] value = "info" -> "Info"
           [] OTHER -> "Default"

\* get_log_level (lib.rs:40-46).  env::var returns Err when the variable is
\* absent or not valid Unicode, and unwrap() panics on Err.
get_log_level(value) ==
    IF value \in {Unset, NotUnicode} THEN "panic"
    ELSE CASE value = "debug" -> "Debug"
           [] value = "info" -> "Info"
           [] OTHER -> "Default"

\* Included with the Info arm read as a minimum severity (Info and above).
IncludedAtLeast(log_level, entry) ==
    CASE log_level = "Debug" -> TRUE
      [] log_level = "Error" -> entry.level = "Error"
      [] log_level = "Info" -> entry.level \in {"Info", "Error"}
      [] log_level = "Default" -> TRUE

\* The arms of `match log_level` (lib.rs:102-157): whether the loop of that
\* arm writes the entry.
Included(log_level, entry) ==
    CASE log_level = "Debug" -> TRUE
      [] log_level = "Error" -> entry.level = "Error"
      [] log_level = "Info" -> entry.level = "Info"
      [] log_level = "Default" -> TRUE

\* timestap.format("%Y-%m-%d %H-%M-%S") (lib.rs:108): the second the tick
\* falls in, as text.
SecondText == <<"00", "01", "02", "03", "04">>
FormatTimestamp(t) == SecondText[(t \div TicksPerSecond) + 1]

\* {:?} of a LogLevel (derive(Debug), lib.rs:9): the variant's name.
LevelLabel(level) ==
    CASE level = "Default" -> "Default"
      [] level = "Error" -> "Error"
      [] level = "Debug" -> "Debug"
      [] level = "Info" -> "Info"

\* FormatLine with the timestamp taken when the line is written.
FormatLineNow(entry) ==
    <<"[" \o FormatTimestamp(clock) \o "] "
          \o LevelLabel(entry.level) \o ": ">>
    \o (IF entry.message = "" THEN <<>> ELSE <<entry.message>>)
    \o <<"\n">>

\* writeln!(file, "[{}] {:?}: {}", ...) (lib.rs:105-111): the pieces written
\* for one entry, in order: the text up to the message, the message (an
\* empty message writes nothing), the newline.
FormatLine(entry) ==
    <<"[" \o FormatTimestamp(entry.timestap) \o "] "
          \o LevelLabel(entry.level) \o ": ">>
    \o (IF entry.message = "" THEN <<>> ELSE <<entry.message>>)
    \o <<"\n">>

\* WriteEntries with the entries taken last first.
RECURSIVE WriteEntriesReversed(_, _)
WriteEntriesReversed(log_level, es) ==
    IF es = <<>> THEN <<>>
    ELSE WriteEntriesReversed(log_level, Tail(es))
         \o (IF Included(log_level, Head(es)) THEN FormatLine(Head(es)) ELSE <<>>)

\* The `for entry in self.entries` loop of the arm chosen (lib.rs:102-157):
\* everything it writes when no write fails, in the order written.
RECURSIVE WriteEntries(_, _)
WriteEntries(log_level, es) ==
    IF es = <<>> THEN <<>>
    ELSE (IF Included(log_level, Head(es)) THEN FormatLine(Head(es)) ELSE <<>>)
         \o WriteEntries(log_level, Tail(es))

\* The longest output of a flush.
MaxOut == MaxEntries * 3

\* An I/O failure of the environment: the step that fails and, for a write,
\* how many pieces reach the file before it does.
NoFault == [step |-> "none", at |-> 0]
Faults ==
    {[step |-> s, at |-> 0] : s \in {"none", "open", "mkdir", "create"}}
    \cup {[step |-> "write", at |-> k] : k \in 0 .. (MaxOut - 1)}

\* OpenOrCreate calling File::create whether or not the path exists, which
\* truncates the file that is there.
OpenOrCreateTruncating(node, fault) ==
    IF node.parent /\ fault.step = "create"
    THEN [ok |-> FALSE, writable |-> FALSE, node |-> node, failed |-> "create"]
    ELSE IF ~node.parent /\ fault.step = "mkdir"
    THEN [ok |-> FALSE, writable |-> FALSE, node |-> node, failed |-> "mkdir"]
    ELSE IF fault.step = "create"
    THEN [ok |-> FALSE, writable |-> FALSE, node |-> Absent(TRUE), failed |-> "create"]
    ELSE [ok |-> TRUE, writable |-> TRUE, node |-> RegularFile(<<>>), failed |-> "none"]

\* `if path.exists() { File::open } else { create_dir_all; File::create }`
\* (lib.rs:92-100).  File::open gives a read-only handle; File::create a
\* write-only handle on a new empty file.
OpenOrCreate(node, fault) ==
    IF node.kind # "absent"
    THEN IF fault.step = "open"
         THEN [ok |-> FALSE, writable |-> FALSE, node |-> node, failed |-> "open"]
         ELSE [ok |-> TRUE, writable |-> FALSE, node |-> node, failed |-> "none"]
    ELSE IF ~node.parent /\ fault.step = "mkdir"
         THEN [ok |-> FALSE, writable |-> FALSE, node |-> node, failed |-> "mkdir"]
         ELSE IF fault.step = "create"
              THEN [ok |-> FALSE, writable |-> FALSE, node |-> Absent(TRUE),
                    failed |-> "create"]
              ELSE [ok |-> TRUE, writable |-> TRUE, node |-> RegularFile(<<>>),
                    failed |-> "none"]

\* How many pieces of `out` the writes put in the file before flush returns
\* (the `?` after each writeln!, lib.rs:111): a write on a read-only handle
\* fails at once, a write on a writable one when the environment fails it.
Written(writable, out, fault) ==
    IF out = <<>> THEN 0
    ELSE IF ~writable THEN 0
    ELSE IF fault.step = "write" /\ fault.at < Len(out) THEN fault.at
    ELSE Len(out)

(* ------------------------------- actions -------------------------------- *)
\* The file system when the program starts: nothing at the target path, with
\* or without its parent directory, or a log file an earlier run left there.
EarlierRun == FormatLine([timestap |-> 0, level |-> "Info", message |-> "a"])
InitialNodes == {Absent(FALSE), Absent(TRUE), RegularFile(EarlierRun)}

Init ==
    /\ self = "none"
    /\ entries = <<>>
    /\ file_path = None
    /\ flushed = FALSE
    /\ LOG_LEVEL \in EnvValues
    /\ clock = 0
    /\ \E node \in InitialNodes :
          fs = [p \in Paths |-> IF p = TargetPath THEN node ELSE Directory]
    /\ last = NoFlush

\* Logger::new storing no path.
newWithoutPath ==
    /\ self = "none"
    /\ self' = "live"
    /\ entries' = <<>>
    /\ file_path' = None
    /\ flushed' = FALSE
    /\ UNCHANGED <<LOG_LEVEL, clock, fs, last>>

\* Logger::new (lib.rs:49-55).
new ==
    /\ self = "none"
    /\ self' = "live"
    /\ entries' = <<>>
    /\ file_path' = TargetPath
    /\ flushed' = FALSE
    /\ UNCHANGED <<LOG_LEVEL, clock, fs, last>>

\* LogEntry { timestap: Local::now(), level, message: message.to_string() }
\* (lib.rs:58-62, 66-70, 74-78).
LogEntry(level, message) ==
    [timestap |-> clock, level |-> level, message |-> message]

\* debug with the level of the function it was copied from.
debugAsInfo ==
    /\ self = "live"
    /\ Len(entries) < MaxEntries
    /\ \E message \in Messages :
          entries' = Append(entries, LogEntry("Info", message))
    /\ UNCHANGED <<self, file_path, flushed, LOG_LEVEL, clock, fs, last>>

\* Logger::debug (lib.rs:57-63).
debug ==
    /\ self = "live"
    /\ Len(entries) < MaxEntries
    /\ \E message \in Messages :
          entries' = Append(entries, LogEntry("Debug", message))
    /\ UNCHANGED <<self, file_path, flushed, LOG_LEVEL, clock, fs, last>>

\* Logger::info (lib.rs:65-71).
info ==
    /\ self = "live"
    /\ Len(entries) < MaxEntries
    /\ \E message \in Messages :
          entries' = Append(entries, LogEntry("Info", message))
    /\ UNCHANGED <<self, file_path, flushed, LOG_LEVEL, clock, fs, last>>

\* Logger::error (lib.rs:73-79).
error ==
    /\ self = "live"
    /\ Len(entries) < MaxEntries
    /\ \E message \in Messages :
          entries' = Append(entries, LogEntry("Error", message))
    /\ UNCHANGED <<self, file_path, flushed, LOG_LEVEL, clock, fs, last>>

\* Consumed for a flush that borrows the Logger (&mut self): the caller keeps
\* it, with whatever the call left in it.
Borrowed ==
    /\ self' = "live"
    /\ entries' = <<>>
    /\ file_path' = file_path

\* What flush(self) leaves of the Logger: it is moved into the call and
\* dropped when the call ends, whatever the result (lib.rs:81).
Consumed ==
    /\ self' = "moved"
    /\ entries' = <<>>
    /\ file_path' = None

\* StoreReached with the store placed first, before any `?`.
StoreReachedAlways(opened, written, total) == TRUE

\* StoreReached with the store placed before the write loop.
StoreReachedAfterOpen(opened, written, total) == opened

\* Whether self.flushed.store(true) is reached (lib.rs:159): only when no `?`
\* before it returned, that is the file was opened and every write succeeded.
StoreReached(opened, written, total) == opened /\ written = total

\* Logger::flush, the early return (lib.rs:82-84).
FlushAlreadyFlushed ==
    /\ flushed
    /\ Consumed
    /\ last' = [NoFlush EXCEPT !.result = "ok", !.entries = entries]
    /\ UNCHANGED <<flushed, LOG_LEVEL, clock, fs>>

\* Logger::flush when get_log_level panics (lib.rs:86, 41).
FlushPanics ==
    /\ ~flushed
    /\ get_log_level(LOG_LEVEL) = "panic"
    /\ Consumed
    /\ last' = [NoFlush EXCEPT !.result = "panic", !.reads = 1, !.env = LOG_LEVEL,
                               !.entries = entries]
    /\ UNCHANGED <<flushed, LOG_LEVEL, clock, fs>>

\* Logger::flush past get_log_level (lib.rs:86-160), under one behaviour of
\* the I/O environment.
FlushRuns(fault) ==
    /\ ~flushed
    /\ get_log_level(LOG_LEVEL) # "panic"
    /\ \E log_level \in {get_log_level(LOG_LEVEL)},
          path \in {IF file_path = None THEN default_log_path ELSE file_path} :
       \E file \in {OpenOrCreate(fs[path], fault)},
          out \in {WriteEntries(log_level, entries)} :
       LET n == IF file.ok THEN Written(file.writable, out, fault) ELSE 0
           ok == file.ok /\ n = Len(out)
           node == IF n > 0
                   THEN [file.node EXCEPT !.data = @ \o SubSeq(out, 1, n)]
                   ELSE file.node
       IN /\ fs' = [fs EXCEPT ![path] = node]
          /\ flushed' = StoreReached(file.ok, n, Len(out))
          /\ last' = [result |-> IF ok THEN "ok" ELSE "err",
                      reads |-> 1,
                      env |-> LOG_LEVEL,
                      log_level |-> log_level,
                      path |-> path,
                      entries |-> entries,
                      before |-> fs[path],
                      opened |-> file.ok,
                      fault |-> IF ~file.ok THEN file.failed
                                ELSE IF file.writable /\ n < Len(out) THEN "write"
                                ELSE "none"]
    /\ Consumed
    /\ UNCHANGED <<LOG_LEVEL, clock>>

\* Logger::flush (lib.rs:81-161).
flush ==
    /\ self = "live"
    /\ \/ FlushAlreadyFlushed
       \/ FlushPanics
       \/ \E fault \in Faults : FlushRuns(fault)

\* The wall clock read by Local::now() (lib.rs:59) moves on.  The clock and
\* the environment are followed until flush has returned.
Tick ==
    /\ self # "moved"
    /\ clock < MaxClock
    /\ clock' = clock + 1
    /\ UNCHANGED <<self, entries, file_path, flushed, LOG_LEVEL, fs, last>>

\* The environment read by env::var("LOG_LEVEL") (lib.rs:41) changes.
SetEnv ==
    /\ self # "moved"
    /\ \E value \in EnvValues \ {LOG_LEVEL} : LOG_LEVEL' = value
    /\ UNCHANGED <<self, entries, file_path, flushed, clock, fs, last>>

Next == new \/ debug \/ info \/ error \/ flush \/ Tick \/ SetEnv

Spec == Init /\ [][Next]_vars

(* ------------------------------- claims --------------------------------- *)
\* The node at the path the flush call resolved, as the call left it.
Target == fs[last.path]

\* Whether the flush call got as far as get_log_level.
Resolved == last.reads = 1

\* The pieces of one line per entry of `es`, in the order of `es`.
RECURSIVE Lines(_)
Lines(es) ==
    IF es = <<>> THEN <<>> ELSE FormatLine(Head(es)) \o Lines(Tail(es))

\* The entries of `es` the filter lets through, by the rule of the
\* specification: Default and Debug everything, Info and Error only their
\* own level.
Passing(filter, es) ==
    SelectSeq(es, LAMBDA e : \/ filter \in {"Default", "Debug"}
                             \/ filter = "Info" /\ e.level = "Info"
                             \/ filter = "Error" /\ e.level = "Error")

\* The entries of `es` recorded at `level`.
OfLevel(level, es) == SelectSeq(es, LAMBDA e : e.level = level)

C3_UnsetFallsBackToDefault ==
    (Resolved /\ last.env = Unset) =>
        (last.result # "panic" /\ last.log_level = "Default")

\* C4: when the file already exists and no I/O step is failed by the
\* environment, a flush with at least one passing entry succeeds and appends
\* the lines of the passing entries after the existing content.
C4_ExistingFileIsAppendedTo ==
    (/\ Resolved /\ last.result # "panic"
     /\ last.before.kind = "file"
     /\ last.fault = "none"
     /\ Passing(last.log_level, last.entries) # <<>>) =>
        /\ last.result = "ok"
        /\ Target.data = last.before.data
                          \o Lines(Passing(last.log_level, last.entries))

\* C5: after a flush that failed with an I/O error the buffer is as it was
\* (same entries, flushed false) and is still the caller's to flush again.
C5_FailedFlushLeavesBuffer ==
    last.result = "err" =>
        (self = "live" /\ entries = last.entries /\ ~flushed)

\* C6, in every state: the flag is false from construction until flush is
\* called, true only after a flush that returned success, and false after a
\* flush that failed.
C6_FlagFollowsSuccess ==
    /\ self = "live" => ~flushed
    /\ flushed => last.result = "ok"
    /\ last.result \in {"err", "panic"} => ~flushed

\* C6: the flushed flag starts false, becomes true only at the end of a flush
\* that returned success, stays false when directory creation, open, create or
\* a write fails, and once true is never reset.
C6_FlushedOnlyBySuccessfulFlush ==
    /\ []C6_FlagFollowsSuccess
    /\ [][flushed => flushed']_vars

\* C6 witness: a flush that failed on a write after the file was created, the
\* flag still false.
C6_Witness ==
    /\ last.result = "err" /\ last.fault = "write" /\ last.opened
    /\ ~flushed

\* The filter the specification gives for a text value of LOG_LEVEL.
FilterOf(value) ==
    IF value = "debug" THEN "Debug" ELSE IF value = "info" THEN "Info" ELSE "Default"

C8_InfoFilterIsExactMatch ==
    (last.result = "ok" /\ Resolved /\ last.env = "info") =>
        Target.data = last.before.data \o Lines(OfLevel("Info", last.entries))

\* C8 witness: entries Error then Info flushed under "info"; the file holds
\* the one line of the Info entry.
C8_Witness ==
    /\ last.result = "ok" /\ last.env = "info"
    /\ Len(last.entries) = 2
    /\ last.entries[1].level = "Error" /\ last.entries[2].level = "Info"
    /\ last.entries[2].message = "a"
    /\ Len(fs[TargetPath].data) = 3

\* C10: a flush of an empty buffer that the environment fails no I/O step of
\* returns success and leaves a file at the path: empty if there was none,
\* with its content unchanged if there was one.
C10_EmptyFlushLeavesFile ==
    (last.result # "none" /\ last.entries = <<>> /\ last.fault = "none") =>
        /\ last.result = "ok"
        /\ fs[TargetPath].kind = "file"
        /\ fs[TargetPath].data = last.before.data

\* A step that puts one entry of `level` at the end of the entry sequence,
\* stamped with the clock, and changes nothing else of the buffer or the
\* file system.
AppendsOne(level) ==
    /\ Len(entries') = Len(entries) + 1
    /\ SubSeq(entries', 1, Len(entries)) = entries
    /\ \E message \in Messages :
          entries'[Len(entries')] =
              [timestap |-> clock, level |-> level, message |-> message]
    /\ UNCHANGED <<self, file_path, flushed, fs>>

\* C11: every record call appends exactly one entry, of the severity of the
\* call variant, at the end of the entry sequence, and leaves the earlier
\* entries, the target path, the flushed flag and the file system unchanged;
\* so the buffer holds one entry per call, in call order.
C11_RecordAppendsOneEntry ==
    [][/\ debug => AppendsOne("Debug")
       /\ info => AppendsOne("Info")
       /\ error => AppendsOne("Error")
       /\ (self = "live" /\ self' = "live") =>
              \/ entries' = entries
              \/ \E level \in {"Debug", "Info", "Error"} : AppendsOne(level)]_vars

\* C11 witness: two record calls made, debug then error; the buffer holds
\* their two entries in that order.
C11_Witness ==
    /\ self = "live"
    /\ Len(entries) = 2
    /\ entries[1].level = "Debug" /\ entries[1].message = "a\nb"
    /\ entries[2].level = "Error" /\ entries[2].message = ""

\* What the flush call added to the file at its path.
Added == SubSeq(Target.data, Len(last.before.data) + 1, Len(Target.data))

\* Whether the flush call got past get_log_level, to the file.
ReachedFile == Resolved /\ last.result \in {"ok", "err"}

\* The piece that starts a line, for a second and a level.
Header(second, level) == "[" \o second \o "] " \o level \o ": "

Seconds == {SecondText[k] : k \in 1 .. Len(SecondText)}

IsHeader(piece) ==
    \E second \in Seconds, level \in LogLevel : piece = Header(second, level)

\* The timestamps of the lines in `data`, in the order of the lines, each as
\* the number of the second it names.
Stamps(data) ==
    LET heads == SelectSeq(data, IsHeader)
    IN [i \in 1 .. Len(heads) |->
           CHOOSE k \in 0 .. (Len(SecondText) - 1) :
               \E level \in LogLevel : heads[i] = Header(SecondText[k + 1], level)]

\* C13 as stated: of two entries written by one flush, recorded at different
\* clock values, the lines carry different timestamps.
C13_DistinctClockValuesGiveDistinctStamps ==
    ReachedFile =>
        LET written == Stamps(Added)
            passing == Passing(last.log_level, last.entries)
        IN \A i, j \in 1 .. Len(written) :
               passing[i].timestap # passing[j].timestap => written[i] # written[j]

\* C13, amended: the timestamp on each line is the second of the clock value
\* captured when the entry was recorded, not that of the flush; so entries
\* recorded in different seconds carry different timestamps, entries recorded
\* in the same second the same one, and the timestamps never decrease in
\* insertion order.
C13_StampIsSecondOfRecordTime ==
    ReachedFile =>
        LET written == Stamps(Added)
            passing == Passing(last.log_level, last.entries)
        IN /\ Len(written) <= Len(passing)
           /\ \A i \in 1 .. Len(written) :
                  written[i] = passing[i].timestap \div TicksPerSecond
           /\ \A i, j \in 1 .. Len(written) : i < j => written[i] <= written[j]

\* C13 witness: two entries recorded in different seconds and flushed in the
\* later one; the file carries the two record-time seconds.
C13_Witness ==
    /\ last.result = "ok" /\ Len(last.entries) = 2
    /\ last.entries[1].timestap = 0 /\ last.entries[2].timestap = 2
    /\ Stamps(fs[TargetPath].data) = <<0, 1>>

\* C14: when a write fails in the middle of a flush, flush returns the error
\* with the flag still false; what was written before the failure stays in
\* the file, after the content that was there, and is a proper prefix of what
\* the passing entries would have written in full: nothing of a later entry
\* follows the point of failure.
C14_FailedWriteLeavesPrefix ==
    (ReachedFile /\ last.fault = "write") =>
        LET full == Lines(Passing(last.log_level, last.entries))
        IN /\ last.result = "err"
           /\ ~flushed
           /\ SubSeq(Target.data, 1, Len(last.before.data)) = last.before.data
           /\ Len(Added) < Len(full)
           /\ Added = SubSeq(full, 1, Len(Added))

\* C14 witness: the write fails inside the second of two lines; the first
\* line and the start of the second are in the file.
C14_Witness ==
    /\ last.result = "err" /\ last.fault = "write"
    /\ Len(last.entries) = 2 /\ last.log_level = "Debug"
    /\ last.entries[1].message = "a" /\ last.entries[2].message = "a"
    /\ Len(fs[TargetPath].data) = 4
    /\ ~flushed

\* C15: a flush that resolved its path leaves a node that was there exactly
\* as it was (nothing created, truncated or altered), and creates the file
\* only where there was none, its parent directory first: the parent exists
\* whenever create was attempted, and the file exists unless mkdir or create
\* failed.
C15_CreatesOnlyWhenAbsent ==
    ReachedFile =>
        /\ last.before.kind # "absent" => Target = last.before
        /\ last.before.kind = "absent" =>
               /\ last.fault = "mkdir" => Target = last.before
               /\ last.fault = "create" => Target = Absent(TRUE)
               /\ last.fault \notin {"mkdir", "create"} =>
                      Target.kind = "file" /\ Target.parent
        /\ fs[default_log_path] = Directory

\* C15 witness: neither the file nor its parent directory was there; the
\* flush created both and wrote a line.
C15_Witness ==
    /\ last.result = "ok"
    /\ last.before = Absent(FALSE)
    /\ fs[TargetPath].kind = "file" /\ fs[TargetPath].parent
    /\ Len(fs[TargetPath].data) = 3

\* The newlines put in the file by a piece.
NewlinesIn(piece) == IF piece \in {"\n", "a\nb"} THEN 1 ELSE 0

RECURSIVE CountNewlines(_)
CountNewlines(data) ==
    IF data = <<>> THEN 0 ELSE NewlinesIn(Head(data)) + CountNewlines(Tail(data))

\* C16: a successful flush adds as many newline-terminated lines as there are
\* entries passing the filter, whatever the message texts.
C16_OneLinePerEntry ==
    (ReachedFile /\ last.result = "ok") =>
        CountNewlines(Added) = Len(Passing(last.log_level, last.entries))

\* C17, in every state: a live buffer has not been flushed and its flag is
\* false; a flush call that ended went past the flag check (it read
\* LOG_LEVEL) and consumed the buffer.
C17_NoFlushOnLiveBuffer ==
    /\ self = "live" => (~flushed /\ last.result = "none")
    /\ last.result # "none" => (self = "moved" /\ last.reads = 1)

\* C17: flush consumes the buffer.  Each buffer is flushed at most once,
\* whether the flush succeeds or fails, nothing is recorded on it afterwards,
\* the flag is false on entry to every flush call and the early return is
\* never taken.
C17_FlushConsumesBuffer ==
    /\ []C17_NoFlushOnLiveBuffer
    /\ [][/\ self = "moved" => (self' = "moved" /\ entries' = entries /\ last' = last)
          /\ last' # last => (self = "live" /\ ~flushed /\ last = NoFlush)]_vars

\* C17 witness: a buffer with an entry was flushed, the flush failed, and the
\* buffer is gone.
C17_Witness ==
    /\ self = "moved" /\ last.result = "err"
    /\ last.entries # <<>> /\ entries = <<>>

\* C18: no flush resolves the Error filter, whatever LOG_LEVEL holds, and no
\* successful flush of a buffer holding Error entries and entries of other
\* levels writes the Error entries alone.
C18_ErrorFilterNeverResolved ==
    /\ last.log_level # "Error"
    /\ (/\ ReachedFile /\ last.result = "ok"
        /\ OfLevel("Error", last.entries) # <<>>
        /\ OfLevel("Error", last.entries) # last.entries) =>
           Added # Lines(OfLevel("Error", last.entries))

\* C18 witness: a buffer with an Error and a Debug entry flushed under
\* LOG_LEVEL = "error"; both lines are in the file.
C18_Witness ==
    /\ last.result = "ok" /\ last.env = "error"
    /\ Len(last.entries) = 2
    /\ last.entries[1].level = "Error" /\ last.entries[2].level = "Debug"
    /\ last.entries[1].message = "a" /\ last.entries[2].message = "a"
    /\ Len(fs[TargetPath].data) = 6

\* C19: a live buffer always has its target path, flush resolves that path
\* and never default_log_path(), and nothing is done at the default path.
C19_PathAlwaysPresent ==
    /\ self = "live" => file_path = TargetPath
    /\ ReachedFile => last.path = TargetPath
    /\ last.path # default_log_path
    /\ fs[default_log_path] = Directory

\* C19 witness: a flush ran to the end on the path given to new.
C19_Witness ==
    /\ last.result = "ok" /\ last.path = TargetPath
    /\ last.entries # <<>>
    /\ fs[TargetPath].kind = "file"
====
